---- MODULE Spec2Model ----
(***************************************************************************)
(* Model of HttpOpenApi (src/src/http-openapi.ts): the constructor, which  *)
(* composes a gateway, compute units, routes and permission grants from a  *)
(* parsed OpenAPI document and a list of integrations, and the secondary   *)
(* operation enableCustomDomain.                                           *)
(*                                                                         *)
(* The constructor is sequential.  Its statements are modelled as steps    *)
(* ordered by pc, one step per statement block and one per callback of     *)
(* each forEach, so that the state at the moment of a throw is a state of  *)
(* the model.                                                              *)
(*                                                                         *)
(* Strings built by template literals are tuples of their parts.  A path   *)
(* is the tuple of its characters, so that path.replace(/\//g, '-') is     *)
(* computed character by character.                                        *)
(***************************************************************************)
EXTENDS Integers, Sequences, FiniteSets, TLC

\* ---------------------------------------------------------------- bounds
MaxOps == 2             \* operations in the document, over all paths
MaxIntegrations == 2    \* length of props.integrations

\* ------------------------------------------------------- program constants
AUTHORIZER_KEY == "custom_authorizer"

\* ------------------------------------------------------------ input sets
\* An optional value is a set of at most one element: {} is undefined.
None == {}
Some(v) == {v}
Value(o) == CHOOSE v \in o : TRUE

\* OpenAPI path keys, as tuples of characters.  Both map to the same text
\* under replace(/\//g, '-').
Paths == { <<"/", "a", "/", "b">>, <<"/", "a", "-", "b">> }
Methods == { "get", "post" }
Uris == { "listItems", "custom_authorizer" }
OperationIds == Uris \cup { "missing" }
FunctionNamePrefix == "prefix"
AuthorizerArn == "arn:authorizer"
ExplicitCors == [allowOrigins |-> <<"https://example.com">>]
PermissiveCors == [allowOrigins |-> <<"*">>]

BSeq(S, n) == UNION { [1..k -> S] : k \in 0..n }

DistinctKeys(seq, field) ==
    \A j, k \in DOMAIN seq : seq[j][field] = seq[k][field] => j = k

RECURSIVE SumLen(_)
SumLen(paths) ==
    IF paths = <<>> THEN 0
    ELSE Len(Head(paths).ops) + SumLen(Tail(paths))

\* An operation object of the document: the method it is declared under,
\* the uri of its x-amazon-apigateway-integration, and its optional
\* security list (a sequence of requirements, each the name of a scheme).
OpNodes(sec) ==
    [method : Methods, uri : Uris, security : {sec}]
PathObjs(sec) ==
    { o \in BSeq(OpNodes(sec), MaxOps) : DistinctKeys(o, "method") }
PathEntries(sec) ==
    [path : Paths, ops : PathObjs(sec)]
PathsOf(sec) ==
    { p \in BSeq(PathEntries(sec), Cardinality(Paths)) :
        DistinctKeys(p, "path") /\ SumLen(p) <= MaxOps }

ApiKeyScheme == [type |-> "apiKey", name |-> "x-api-key", in |-> "header"]

\* Parsed documents: without a components section, with one that has no
\* securitySchemes, and with a scheme of the author's that every operation
\* already requires.  Keys of a mapping are distinct (YAML.parse rejects
\* duplicate keys) and keep the order of the document (none is
\* integer-like: paths start with '/', methods are words).
Documents ==
    [paths : PathsOf(None), components : {None}]
    \cup [paths : PathsOf(None),
          components : {Some([securitySchemes |-> <<>>])}]
    \cup [paths : PathsOf(Some(<<"api_key">>)),
          components : {Some([securitySchemes |->
                            <<[key |-> "api_key", value |-> ApiKeyScheme]>>])}]

\* corsAllowAllOrigins: FALSE stands for both undefined and false.
Props ==
    [integrations : BSeq([operationId : OperationIds], MaxIntegrations),
     customAuthorizerLambdaArn : {None, Some(AuthorizerArn)},
     corsConfig : {None, Some(ExplicitCors)},
     corsAllowAllOrigins : BOOLEAN,
     acls : {None, Some([attrArn |-> "arn:acl"])}]

\* --------------------------------------------------------- JS objects
\* A JS object with string keys: the sequence of its entries in insertion
\* order.  Assigning to an existing key keeps its position.
Has(obj, k) == \E j \in DOMAIN obj : obj[j].key = k
Get(obj, k) == obj[CHOOSE j \in DOMAIN obj : obj[j].key = k].value
Set(obj, k, v) ==
    IF Has(obj, k)
    THEN [j \in DOMAIN obj |->
            IF obj[j].key = k THEN [key |-> k, value |-> v] ELSE obj[j]]
    ELSE Append(obj, [key |-> k, value |-> v])
ObjectKeys(obj) == [j \in DOMAIN obj |-> obj[j].key]
KeySet(obj) == { obj[j].key : j \in DOMAIN obj }

\* ------------------------------------------------------ pure functions
\* MapMethods keyed by the method name instead of the integration uri
RECURSIVE MapMethodsKeyedByMethod(_, _, _)
MapMethodsKeyedByMethod(methods, path, ops) ==
    IF ops = <<>> THEN methods
    ELSE MapMethodsKeyedByMethod(
            Set(methods, Head(ops).method,
                [path |-> path, method |-> Head(ops).method]),
            path, Tail(ops))

\* MapMethods keeping the first mapping of a uri it has already seen
RECURSIVE MapMethodsFirstWins(_, _, _)
MapMethodsFirstWins(methods, path, ops) ==
    IF ops = <<>> THEN methods
    ELSE MapMethodsFirstWins(
            IF Has(methods, Head(ops).uri) THEN methods
            ELSE Set(methods, Head(ops).uri,
                     [path |-> path, method |-> Head(ops).method]),
            path, Tail(ops))

\* Object.keys(pathObj).forEach: one assignment per method, in order.
RECURSIVE MapMethods(_, _, _)
MapMethods(methods, path, ops) ==
    IF ops = <<>> THEN methods
    ELSE MapMethods(Set(methods, Head(ops).uri,
                        [path |-> path, method |-> Head(ops).method]),
                    path, Tail(ops))

\* Object.entries(spec.paths).forEach
RECURSIVE MapPaths(_, _)
MapPaths(methods, paths) ==
    IF paths = <<>> THEN methods
    ELSE MapPaths(MapMethods(methods, Head(paths).path, Head(paths).ops),
                  Tail(paths))

buildMethodMappings(s) == MapPaths(<<>>, s.paths)

toAuthorizerSpec(lambdaAuthorizerArn, region) ==
    [type |-> "apiKey",
     name |-> "Authorization",
     in |-> "header",
     authorizer |->
        [type |-> "request",
         identitySource |-> "$request.header.Authorization",
         authorizerUri |-> <<"arn:aws:apigateway:", region,
                             ":lambda:path/2015-03-31/functions/",
                             lambdaAuthorizerArn, "/invocations">>,
         authorizerPayloadFormatVersion |-> "2.0",
         authorizerResultTtlInSeconds |-> 300]]

\* path.replace(/\//g, '-')
ReplaceSlashes(path) ==
    [j \in DOMAIN path |-> IF path[j] = "/" THEN "-" ELSE path[j]]

\* method.toUpperCase()
toUpperCase(method) ==
    CASE method = "get" -> "GET"
      [] method = "post" -> "POST"
      [] OTHER -> method

\* spec.paths[path][method]
OpNode(s, path, method) ==
    LET p == s.paths[CHOOSE j \in DOMAIN s.paths : s.paths[j].path = path]
    IN  p.ops[CHOOSE k \in DOMAIN p.ops : p.ops[k].method = method]

\* SetSecurity pushing onto the security list the operation already has
SetSecurityAppending(s, path, method, security) ==
    [s EXCEPT !.paths =
        [j \in DOMAIN s.paths |->
            IF s.paths[j].path # path THEN s.paths[j]
            ELSE [s.paths[j] EXCEPT !.ops =
                    [k \in DOMAIN s.paths[j].ops |->
                        IF s.paths[j].ops[k].method # method
                        THEN s.paths[j].ops[k]
                        ELSE [s.paths[j].ops[k] EXCEPT !.security =
                                IF @ = None THEN Some(security)
                                ELSE Some(Value(@) \o security)]]]]]

\* spec.paths[path][method].security = security
SetSecurity(s, path, method, security) ==
    [s EXCEPT !.paths =
        [j \in DOMAIN s.paths |->
            IF s.paths[j].path # path THEN s.paths[j]
            ELSE [s.paths[j] EXCEPT !.ops =
                    [k \in DOMAIN s.paths[j].ops |->
                        IF s.paths[j].ops[k].method # method
                        THEN s.paths[j].ops[k]
                        ELSE [s.paths[j].ops[k] EXCEPT
                                !.security = Some(security)]]]]]

\* ------------------------------------------------------ construct ids
ApiId == <<FunctionNamePrefix, "-", "api">>
StageId == <<FunctionNamePrefix, "-", "stage">>
WafAssociationId == <<FunctionNamePrefix, "-", "waf-association">>
FunctionName(integration) ==
    <<FunctionNamePrefix, "-", integration.operationId>>
IntegrationId(m) == <<"integration-", ReplaceSlashes(m.path), "-", m.method>>
RouteId(m) == <<"route-", ReplaceSlashes(m.path), "-", m.method>>
LambdaPermissionId(n) == <<"LambdaPermission_", n>>
AuthorizerPermissionId == <<"AuthorizerPermission">>

\* ------------------------------------------------- synthesized resources
\* sourceArn of the WAF association and of the authorizer grant
AllStagesMethodsPaths == <<"arn:execute-api:", ApiId, "/*/*/*">>
\* sourceArn of a compute unit's grant
AllStagesMethods == <<"arn:execute-api:", ApiId, "/*/*">>

Function(integration) ==
    [functionName |-> FunctionName(integration),
     functionArn |-> <<"arn:lambda:function:", FunctionName(integration)>>]

IntegrationUri(func) ==
    <<"arn:apigateway:lambda:path/2015-03-31/functions/",
      func.functionArn, "/invocations">>

\* CfnIntegrationOf with the bare function ARN as integrationUri
CfnIntegrationOfFunctionArn(m, func) ==
    [id |-> IntegrationId(m),
     integrationType |-> "AWS_PROXY",
     payloadFormatVersion |-> "2.0",
     integrationUri |-> func.functionArn]

CfnIntegrationOf(m, func) ==
    [id |-> IntegrationId(m),
     integrationType |-> "AWS_PROXY",
     payloadFormatVersion |-> "2.0",
     integrationUri |-> IntegrationUri(func)]

RouteKey(m) == <<toUpperCase(m.method), " ", m.path>>

CfnRouteOf(m, intgr) ==
    [id |-> RouteId(m),
     routeKey |-> RouteKey(m),
     target |-> <<"integrations/", intgr.id>>]

CfnPermissionOf(id, functionName, sourceArn) ==
    [id |-> id,
     action |-> "lambda:InvokeFunction",
     principal |-> "apigateway.amazonaws.com",
     functionName |-> functionName,
     sourceArn |-> sourceArn]

\* ---------------------------------------------------------------- state
VARIABLES
    pc,              \* position in the constructor / after it
    error,           \* the error thrown by the constructor, "none" if none
    props,           \* HttpApiProps (with acls), never assigned
    file,            \* the document as parsed, kept for reference
    spec,            \* the parsed document, patched in place
    children,        \* ids of the constructs created in the scope of this
    methodMappings,  \* this.methodMappings
    cfnApi,          \* this.cfnApi
    apiStage,        \* this.apiStage
    association,     \* this.association
    functions,       \* this.functions
    cfnIntegrations, \* the CfnIntegration constructs, in creation order
    routes,          \* this.routes
    permissions,     \* this.permissions
    i,               \* index of the forEach over props.integrations
    idx,             \* index of the forEach over Object.keys(functions)
    customDomain,    \* arguments of enableCustomDomain once it has run
    dependencies,    \* declared ordering: <<r, d>> when r depends on d
    materialized     \* resources the provisioning engine has created

vars == <<pc, error, props, file, spec, children, methodMappings, cfnApi,
          apiStage, association, functions, cfnIntegrations, routes,
          permissions, i, idx, customDomain, dependencies, materialized>>

\* The state after lines 47-54: empty maps, the document read and parsed.
Init ==
    /\ pc = "buildMethodMappings"
    /\ error = "none"
    /\ props \in Props
    /\ file \in Documents
    /\ spec = file
    /\ children = {}
    /\ methodMappings = <<>>
    /\ cfnApi = None
    /\ apiStage = None
    /\ association = None
    /\ functions = <<>>
    /\ cfnIntegrations = <<>>
    /\ routes = <<>>
    /\ permissions = <<>>
    /\ i = 1
    /\ idx = 0
    /\ customDomain = None
    /\ dependencies = {}
    /\ materialized = {}

\* ------------------------------------------------------------ constructor
\* line 56
BuildMethodMappings ==
    /\ pc = "buildMethodMappings"
    /\ methodMappings' = buildMethodMappings(spec)
    /\ pc' = "cfnApi"
    /\ UNCHANGED <<error, props, file, spec, children, cfnApi, apiStage,
                   association, functions, cfnIntegrations, routes,
                   permissions, i, idx, customDomain, dependencies,
                   materialized>>

\* CorsConfiguration letting the allow-all flag override the explicit one
CorsConfigurationFlagFirst(p) ==
    IF p.corsAllowAllOrigins THEN Some(PermissiveCors) ELSE p.corsConfig

\* corsConfiguration of the CfnApi, line 60
CorsConfiguration(p) == p.corsConfig

\* lines 58-62
CreateCfnApi ==
    /\ pc = "cfnApi"
    /\ cfnApi' = Some([id |-> ApiId,
                       name |-> ApiId,
                       corsConfiguration |-> CorsConfiguration(props),
                       protocolType |-> "HTTP"])
    /\ children' = children \cup {ApiId}
    /\ pc' = "apiStage"
    /\ UNCHANGED <<error, props, file, spec, methodMappings, apiStage,
                   association, functions, cfnIntegrations, routes,
                   permissions, i, idx, customDomain, dependencies,
                   materialized>>

\* lines 64-68; apiId: this.cfnApi.attrApiId makes the stage depend on the api
CreateApiStage ==
    /\ pc = "apiStage"
    /\ apiStage' = Some([id |-> StageId,
                         apiId |-> ApiId,
                         stageName |-> "$default",
                         autoDeploy |-> TRUE])
    /\ children' = children \cup {StageId}
    /\ dependencies' = dependencies \cup {<<"apiStage", "cfnApi">>}
    /\ pc' = "acls"
    /\ UNCHANGED <<error, props, file, spec, methodMappings, cfnApi,
                   association, functions, cfnIntegrations, routes,
                   permissions, i, idx, customDomain, materialized>>

\* AfterIntegrations leaving the loop one integration early
AfterIntegrationsOffByOne(n) ==
    IF n >= Len(props.integrations) THEN "securitySchemes" ELSE "integrations"

\* where the constructor goes once the forEach over integrations is over
AfterIntegrations(n) ==
    IF n > Len(props.integrations) THEN "securitySchemes" ELSE "integrations"

\* lines 70-75
AssociateAcls ==
    /\ pc = "acls"
    /\ IF props.acls # None
       THEN /\ association' = Some([id |-> WafAssociationId,
                                    resourceArn |-> AllStagesMethodsPaths,
                                    webAclArn |-> Value(props.acls).attrArn])
            /\ children' = children \cup {WafAssociationId}
       ELSE UNCHANGED <<association, children>>
    /\ pc' = AfterIntegrations(1)
    /\ UNCHANGED <<error, props, file, spec, methodMappings, cfnApi,
                   apiStage, functions, cfnIntegrations, routes,
                   permissions, i, idx, customDomain, dependencies,
                   materialized>>

\* the security list the binder writes on a bound operation, lines 111-115
AuthorizerSecurity == <<AUTHORIZER_KEY>>

\* lines 78-79: the integration has no entry in the index
ThrowNoPath ==
    /\ pc = "integrations"
    /\ ~Has(methodMappings, props.integrations[i].operationId)
    /\ error' = "NoPath"
    /\ pc' = "aborted"
    /\ UNCHANGED <<props, file, spec, children, methodMappings, cfnApi,
                   apiStage, association, functions, cfnIntegrations,
                   routes, permissions, i, idx, customDomain, dependencies,
                   materialized>>

\* BindIntegration granting the compute unit's permission in the callback
BindIntegrationGranting ==
    /\ pc = "integrations"
    /\ Has(methodMappings, props.integrations[i].operationId)
    /\ LET integration == props.integrations[i]
           method == Get(methodMappings, integration.operationId)
           func == Function(integration)
           intgr == CfnIntegrationOf(method, func)
           route == CfnRouteOf(method, intgr)
       IN  /\ func.functionName \notin children
           /\ intgr.id \notin children
           /\ route.id \notin children
           /\ children' = children \cup {func.functionName, intgr.id, route.id}
           /\ functions' = Set(functions, integration.operationId, func)
           /\ cfnIntegrations' = Append(cfnIntegrations, intgr)
           /\ routes' = Append(routes, route)
           /\ permissions' =
                Set(permissions, integration.operationId,
                    CfnPermissionOf(LambdaPermissionId(i - 1),
                                    func.functionName, AllStagesMethods))
           /\ spec' = IF props.customAuthorizerLambdaArn # None
                      THEN SetSecurity(spec, method.path, method.method,
                                       AuthorizerSecurity)
                      ELSE spec
    /\ i' = i + 1
    /\ pc' = AfterIntegrations(i + 1)
    /\ UNCHANGED <<error, props, file, methodMappings, cfnApi, apiStage,
                   association, idx, customDomain, dependencies,
                   materialized>>

\* lines 82-117, one callback of props.integrations.forEach
BindIntegration ==
    /\ pc = "integrations"
    /\ Has(methodMappings, props.integrations[i].operationId)
    /\ LET integration == props.integrations[i]
           method == Get(methodMappings, integration.operationId)
           func == Function(integration)
           intgr == CfnIntegrationOf(method, func)
           route == CfnRouteOf(method, intgr)
       IN  /\ func.functionName \notin children
           /\ intgr.id \notin children
           /\ route.id \notin children
           /\ children' = children \cup {func.functionName, intgr.id, route.id}
           /\ functions' = Set(functions, integration.operationId, func)
           /\ cfnIntegrations' = Append(cfnIntegrations, intgr)
           /\ routes' = Append(routes, route)
           /\ spec' = IF props.customAuthorizerLambdaArn # None
                      THEN SetSecurity(spec, method.path, method.method,
                                       AuthorizerSecurity)
                      ELSE spec
    /\ i' = i + 1
    /\ pc' = AfterIntegrations(i + 1)
    /\ UNCHANGED <<error, props, file, methodMappings, cfnApi, apiStage,
                   association, permissions, idx, customDomain,
                   dependencies, materialized>>

\* lines 83, 96: a construct whose id is already taken in the scope makes
\* its constructor throw; what was created before it stays.  (A route id is
\* taken exactly when the integration id with the same suffix is, so the
\* CfnRoute of line 103 is never the first to collide.)
ThrowDuplicateConstruct ==
    /\ pc = "integrations"
    /\ Has(methodMappings, props.integrations[i].operationId)
    /\ LET integration == props.integrations[i]
           method == Get(methodMappings, integration.operationId)
           func == Function(integration)
           intgr == CfnIntegrationOf(method, func)
           route == CfnRouteOf(method, intgr)
       IN  \/ /\ func.functionName \in children
              /\ UNCHANGED <<children, functions, cfnIntegrations>>
           \/ /\ func.functionName \notin children
              /\ intgr.id \in children
              /\ children' = children \cup {func.functionName}
              /\ functions' = Set(functions, integration.operationId, func)
              /\ UNCHANGED cfnIntegrations
    /\ error' = "DuplicateConstruct"
    /\ pc' = "aborted"
    /\ UNCHANGED <<props, file, spec, methodMappings, cfnApi, apiStage,
                   association, routes, permissions, i, idx, customDomain,
                   dependencies, materialized>>

\* lines 121-126
InjectAuthorizerScheme ==
    /\ pc = "securitySchemes"
    /\ IF props.customAuthorizerLambdaArn = None
       THEN /\ pc' = "authorizerPermission"
            /\ UNCHANGED <<spec, error>>
       ELSE IF spec.components = None
       THEN \* spec.components.securitySchemes = {} on undefined
            /\ error' = "TypeError"
            /\ pc' = "aborted"
            /\ UNCHANGED spec
       ELSE /\ spec' = [spec EXCEPT !.components =
                Some([Value(spec.components) EXCEPT !.securitySchemes =
                    Set(<<>>, AUTHORIZER_KEY,
                        toAuthorizerSpec(Value(props.customAuthorizerLambdaArn),
                                         "region"))])]
            /\ pc' = "authorizerPermission"
            /\ UNCHANGED error
    /\ UNCHANGED <<props, file, children, methodMappings, cfnApi, apiStage,
                   association, functions, cfnIntegrations, routes,
                   permissions, i, idx, customDomain, dependencies,
                   materialized>>

\* where the constructor goes once the forEach over the functions is over
AfterPermissions(n) ==
    IF n >= Len(ObjectKeys(functions)) THEN "done" ELSE "lambdaPermissions"

\* lines 130-138
GrantAuthorizerPermission ==
    /\ pc = "authorizerPermission"
    /\ IF props.customAuthorizerLambdaArn # None
       THEN /\ permissions' =
                Set(permissions, AUTHORIZER_KEY,
                    CfnPermissionOf(AuthorizerPermissionId,
                                    Value(props.customAuthorizerLambdaArn),
                                    AllStagesMethodsPaths))
            /\ children' = children \cup {AuthorizerPermissionId}
       ELSE UNCHANGED <<permissions, children>>
    /\ pc' = AfterPermissions(0)
    /\ UNCHANGED <<error, props, file, spec, methodMappings, cfnApi,
                   apiStage, association, functions, cfnIntegrations,
                   routes, i, idx, customDomain, dependencies,
                   materialized>>

\* lines 140-149, one callback of Object.keys(this.functions).forEach
GrantLambdaPermission ==
    /\ pc = "lambdaPermissions"
    /\ LET funcKey == ObjectKeys(functions)[idx + 1]
           func == Get(functions, funcKey)
       IN  /\ permissions' =
                Set(permissions, funcKey,
                    CfnPermissionOf(LambdaPermissionId(idx),
                                    func.functionName, AllStagesMethods))
           /\ children' = children \cup {LambdaPermissionId(idx)}
    /\ idx' = idx + 1
    /\ pc' = AfterPermissions(idx + 1)
    /\ UNCHANGED <<error, props, file, spec, methodMappings, cfnApi,
                   apiStage, association, functions, cfnIntegrations,
                   routes, i, customDomain, dependencies, materialized>>

\* ----------------------------------------------------- enableCustomDomain
DomainNames == { "api.example.com", "api.example.org" }

\* MappingDependencies without the dependency on the A record
MappingDependenciesWithoutARecord ==
    { <<"apiMapping", "cfnApi">>,
      <<"apiMapping", "apiStage">>,
      <<"apiMapping", "domainName">>,
      <<"apiMapping", "aaaaRecord">> }

\* lines 194-198: apiMapping.node.addDependency(...)
MappingDependencies ==
    { <<"apiMapping", "cfnApi">>,
      <<"apiMapping", "apiStage">>,
      <<"apiMapping", "domainName">>,
      <<"apiMapping", "aRecord">>,
      <<"apiMapping", "aaaaRecord">> }

\* lines 178-183: the alias target of both records reads the domain's
\* regional endpoint
RecordDependencies ==
    { <<"aRecord", "domainName">>, <<"aaaaRecord", "domainName">> }

\* lines 157-199.  A second call throws on its first construct
\* ('DomainCertificate' is taken) and changes nothing.
EnableCustomDomain ==
    /\ pc = "done"
    /\ <<"DomainCertificate">> \notin children
    /\ \E customDomainName \in DomainNames :
        customDomain' = Some([domainName |-> customDomainName,
                              certificateArn |-> "arn:certificate",
                              zoneName |-> "example",
                              apiId |-> ApiId,
                              stage |-> Value(apiStage).stageName])
    /\ children' = children \cup
            { <<"DomainCertificate">>, <<"CustomDomainName">>,
              <<"ZoneLookup">>, <<"CustomDomainARecord">>,
              <<"CustomDomainAAAARecord">>, <<"CustomDomainApiMapping">> }
    /\ dependencies' = dependencies \cup RecordDependencies
                                    \cup MappingDependencies
    /\ UNCHANGED <<pc, error, props, file, spec, methodMappings, cfnApi,
                   apiStage, association, functions, cfnIntegrations,
                   routes, permissions, i, idx, materialized>>

\* the resources of the gateway and of its custom domain
Resources ==
    {"cfnApi", "apiStage"}
    \cup IF customDomain # None
         THEN {"domainName", "aRecord", "aaaaRecord", "apiMapping"}
         ELSE {}

\* The provisioning engine creates a declared resource once everything it
\* depends on exists.  Provisioning starts after the composition is over.
Materialize ==
    /\ pc \in {"done", "provisioning"}
    /\ \E r \in Resources \ materialized :
        /\ \A d \in Resources : <<r, d>> \in dependencies => d \in materialized
        /\ materialized' = materialized \cup {r}
    /\ pc' = "provisioning"
    /\ UNCHANGED <<error, props, file, spec, children, methodMappings,
                   cfnApi, apiStage, association, functions,
                   cfnIntegrations, routes, permissions, i, idx,
                   customDomain, dependencies>>

Next ==
    \/ BuildMethodMappings
    \/ CreateCfnApi
    \/ CreateApiStage
    \/ AssociateAcls
    \/ ThrowNoPath
    \/ BindIntegration
    \/ ThrowDuplicateConstruct
    \/ InjectAuthorizerScheme
    \/ GrantAuthorizerPermission
    \/ GrantLambdaPermission
    \/ EnableCustomDomain
    \/ Materialize

Spec == Init /\ [][Next]_vars

\* ---------------------------------------------------------------- claims
\* the operations of a document, as (path, method, uri), in traversal
\* order: paths in document order, methods in order within each path
RECURSIVE Flatten(_)
Flatten(paths) ==
    IF paths = <<>> THEN <<>>
    ELSE [k \in DOMAIN Head(paths).ops |->
            [path |-> Head(paths).path,
             method |-> Head(paths).ops[k].method,
             uri |-> Head(paths).ops[k].uri]]
         \o Flatten(Tail(paths))

Operations == Flatten(file.paths)
UniqueUris ==
    \A j, k \in DOMAIN Operations :
        Operations[j].uri = Operations[k].uri => j = k
Shared(uri) ==
    Cardinality({ j \in DOMAIN Operations : Operations[j].uri = uri }) >= 2
LastWith(uri) ==
    Operations[CHOOSE j \in DOMAIN Operations :
        /\ Operations[j].uri = uri
        /\ \A k \in DOMAIN Operations : Operations[k].uri = uri => k <= j]
Built == pc # "buildMethodMappings"
Succeeded == pc \in {"done", "provisioning"}
AuthorizerConfigured == props.customAuthorizerLambdaArn # None
BoundNode(s, j) ==
    LET m == Get(methodMappings, props.integrations[j].operationId)
    IN  OpNode(s, m.path, m.method)
SchemeInjected == spec.components # file.components

\* C2: when every operation's uri is unique, the index has exactly one
\* entry per (path, method) pair of the document and looking up an
\* operation's uri returns the (path, method) it was declared under.
C2_UniqueUrisIndexExact ==
    (Built /\ UniqueUris) =>
        /\ Len(methodMappings) = Len(Operations)
        /\ \A j \in DOMAIN Operations :
            /\ Has(methodMappings, Operations[j].uri)
            /\ Get(methodMappings, Operations[j].uri) =
                    [path |-> Operations[j].path,
                     method |-> Operations[j].method]

C2_Witness ==
    /\ pc = "cfnApi"
    /\ UniqueUris
    /\ Len(Operations) = 2
    /\ Len(methodMappings) = 2

\* C8: a uri that several operations declare has a single entry in the
\* index, which resolves to the last of them in traversal order, and
\* building the index raises no error.
C8_LastWriteWins ==
    Built =>
        /\ pc = "cfnApi" => error = "none"
        /\ \A u \in Uris : Shared(u) =>
            /\ Cardinality({ j \in DOMAIN methodMappings :
                                methodMappings[j].key = u }) = 1
            /\ Get(methodMappings, u) =
                    [path |-> LastWith(u).path, method |-> LastWith(u).method]

C8_Witness ==
    /\ pc = "cfnApi"
    /\ \E u \in Uris :
        /\ Shared(u)
        /\ Operations[1].uri = u
        /\ Get(methodMappings, u).path # Operations[1].path

\* C7: with both an explicit corsConfig and corsAllowAllOrigins = true, the
\* CORS configuration of the gateway is the explicit corsConfig.
C7_ExplicitCorsWins ==
    (cfnApi # None /\ props.corsConfig # None /\ props.corsAllowAllOrigins) =>
        /\ Value(cfnApi).corsConfiguration = Some(ExplicitCors)
        /\ Value(cfnApi).corsConfiguration # Some(PermissiveCors)

C7_Witness ==
    /\ cfnApi # None
    /\ props.corsConfig = Some(ExplicitCors)
    /\ props.corsAllowAllOrigins
    /\ Value(cfnApi).corsConfiguration = Some(ExplicitCors)

\* C6: with corsAllowAllOrigins = true and no corsConfig, the gateway
\* carries the fixed permissive CORS configuration.
C6_AllowAllOriginsPermissive ==
    (cfnApi # None /\ props.corsConfig = None /\ props.corsAllowAllOrigins) =>
        Value(cfnApi).corsConfiguration = Some(PermissiveCors)

\* C9: the API mapping is declared dependent on the domain name, the
\* default stage and both DNS records, so it is materialized only after
\* the four of them exist.
C9_MappingAfterDomainStageRecords ==
    /\ customDomain # None =>
        \A d \in {"domainName", "apiStage", "aRecord", "aaaaRecord"} :
            <<"apiMapping", d>> \in dependencies
    /\ "apiMapping" \in materialized =>
        {"domainName", "apiStage", "aRecord", "aaaaRecord"} \subseteq materialized

C9_Witness ==
    /\ customDomain # None
    /\ "apiMapping" \in materialized

\* the document but for the security lists of its operations
SameButSecurity(s, t) ==
    /\ s.components = t.components
    /\ DOMAIN s.paths = DOMAIN t.paths
    /\ \A a \in DOMAIN s.paths :
        /\ s.paths[a].path = t.paths[a].path
        /\ DOMAIN s.paths[a].ops = DOMAIN t.paths[a].ops
        /\ \A b \in DOMAIN s.paths[a].ops :
            /\ s.paths[a].ops[b].method = t.paths[a].ops[b].method
            /\ s.paths[a].ops[b].uri = t.paths[a].ops[b].uri

\* the integrations before position n that resolve to (path, method)
BoundBefore(n, path, method) ==
    \E j \in 1..(n - 1) :
        /\ Has(methodMappings, props.integrations[j].operationId)
        /\ Get(methodMappings, props.integrations[j].operationId) =
                [path |-> path, method |-> method]

C3_NodeReferencesComputeUnit ==
    Succeeded =>
        \A j \in DOMAIN props.integrations :
            BoundNode(spec, j).uri # props.integrations[j].operationId

\* C3 as amended: after a successful composition the operation node of
\* every bound integration keeps its invocation-target field; the compute
\* unit of the integration is referenced by the j-th CfnIntegration, which
\* the j-th route, keyed 'METHOD path', targets.
C3_RouteReferencesComputeUnit ==
    Succeeded =>
        /\ Len(cfnIntegrations) = Len(props.integrations)
        /\ Len(routes) = Len(props.integrations)
        /\ \A j \in DOMAIN props.integrations :
            LET id == props.integrations[j].operationId
                m == Get(methodMappings, id)
            IN  /\ BoundNode(spec, j).uri = BoundNode(file, j).uri
                /\ BoundNode(spec, j).uri = id
                /\ Has(functions, id)
                /\ Get(functions, id).functionName =
                        <<FunctionNamePrefix, "-", id>>
                /\ cfnIntegrations[j].integrationUri =
                        <<"arn:apigateway:lambda:path/2015-03-31/functions/",
                          Get(functions, id).functionArn, "/invocations">>
                /\ routes[j].routeKey = <<toUpperCase(m.method), " ", m.path>>
                /\ routes[j].target = <<"integrations/", cfnIntegrations[j].id>>

C3_Witness ==
    /\ pc = "done"
    /\ Len(props.integrations) = 2
    /\ Len(routes) = 2
    /\ routes[1].routeKey # routes[2].routeKey

\* C4: after a successful composition the permissions map holds one grant
\* per compute unit, under its operationId, and with an authorizer one
\* more under the authorizer key: |functions| + 1 grants with an
\* authorizer, |functions| without, whatever the operationIds.
C4_OneGrantPerUnitPlusAuthorizer ==
    Succeeded =>
        /\ \A k \in KeySet(functions) : Has(permissions, k)
        /\ AuthorizerConfigured => Has(permissions, AUTHORIZER_KEY)
        /\ Len(permissions) =
                Len(functions) + (IF AuthorizerConfigured THEN 1 ELSE 0)

\* C5: after a successful composition with a custom authorizer, every
\* operation bound by an integration has a security list of exactly one
\* requirement, naming the authorizer key, and securitySchemes holds
\* exactly one scheme, the authorizer's under the authorizer key, whatever
\* the number of integrations.
C5_OneRequirementOneScheme ==
    (Succeeded /\ AuthorizerConfigured) =>
        /\ \A j \in DOMAIN props.integrations :
            /\ BoundNode(spec, j).security # None
            /\ Len(Value(BoundNode(spec, j).security)) = 1
            /\ Value(BoundNode(spec, j).security)[1] = AUTHORIZER_KEY
        /\ spec.components # None
        /\ LET schemes == Value(spec.components).securitySchemes
           IN  /\ Len(schemes) = 1
               /\ schemes[1].key = AUTHORIZER_KEY
               /\ schemes[1].value.authorizer.type = "request"
               /\ schemes[1].value.authorizer.authorizerUri[4] =
                        Value(props.customAuthorizerLambdaArn)

C5_Witness ==
    /\ pc = "done"
    /\ AuthorizerConfigured
    /\ Len(props.integrations) = 2
    /\ file.components # None
    /\ Value(file.components).securitySchemes # <<>>
    /\ BoundNode(file, 1).security = Some(<<"api_key">>)
    /\ BoundNode(spec, 1).security = Some(<<AUTHORIZER_KEY>>)

\* C10 as stated: the authorizer scheme, the authorizer grant, the WAF
\* association and the grants of the compute units exist only once every
\* integration has been bound, and none exists when an integration fails
\* to resolve.
C10_PatchesAfterBinding ==
    /\ (SchemeInjected \/ permissions # <<>> \/ association # None) =>
            i > Len(props.integrations)
    /\ error = "NoPath" =>
            ~SchemeInjected /\ permissions = <<>> /\ association = None

\* C10 as amended: the authorizer scheme, the authorizer grant and the
\* grants of the compute units exist only once every integration has been
\* bound, and none exists when an integration fails to resolve; the WAF
\* association is synthesized before the first integration is bound, so it
\* exists from then on whenever an access-control list was supplied, also
\* when an integration fails to resolve.
C10_GrantsAndSchemeAfterBinding ==
    /\ (SchemeInjected \/ permissions # <<>>) =>
            /\ i > Len(props.integrations)
            /\ pc \in {"authorizerPermission", "lambdaPermissions",
                       "done", "provisioning"}
    /\ error = "NoPath" => ~SchemeInjected /\ permissions = <<>>
    /\ pc \in {"integrations", "aborted"} =>
            (association # None <=> props.acls # None)

C10_Witness ==
    /\ pc = "lambdaPermissions"
    /\ idx = 1
    /\ SchemeInjected
    /\ Len(permissions) = 2
    /\ association # None
    /\ Len(props.integrations) = 2

====
